---- MODULE Spec2Model ----
(***************************************************************************)
(* Model of make_evidence_manifest.py (v2): the evidence-manifest builder. *)
(* The extraction heuristics (job ids, backend, shots, timestamp, grouping *)
(* key) are operators over a tagged representation of parsed JSON; main()  *)
(* is a state machine over the evidence directory.                         *)
(*                                                                         *)
(* Python strings are sequences of one-character strings, so that lower(), *)
(* strip(), startswith(), isdigit(), int(), str() and the token regex are  *)
(* computed character by character.                                        *)
(***************************************************************************)
EXTENDS Integers, Sequences, FiniteSets, TLC

(***************************************************************************)
(* Characters (ASCII subset), in code-point order                          *)
(***************************************************************************)
Digits == <<"0", "1", "2", "3", "4", "5", "6", "7", "8", "9">>

UpperLetters == <<"A", "B", "C", "D", "E", "F", "G", "H", "I", "J", "K", "L", "M", "N", "O", "P", "Q", "R", "S", "T", "U", "V", "W", "X", "Y", "Z">>

LowerLetters == <<"a", "b", "c", "d", "e", "f", "g", "h", "i", "j", "k", "l", "m", "n", "o", "p", "q", "r", "s", "t", "u", "v", "w", "x", "y", "z">>

\* the character U+00B2, superscript two: str.isdigit() holds of it, int()
\* rejects it
SUPERSCRIPT_TWO == "U+00B2"

\* the characters of the reports that are written here by their code points:
\* the backtick, the em dash and the check mark
BACKTICK == "U+0060"

EM_DASH == "U+2014"

CHECK_MARK == "U+2705"

\* code-point order of the characters the model uses; it is the order str
\* comparison (sorted) uses
AsciiOrder ==
    <<"\n", " ", "#", "(", ")", "+", ",", "-", ".", "/">> \o Digits \o <<":", "=">>
        \o UpperLetters \o <<"_", BACKTICK>> \o LowerLetters
        \o <<"{", "}", SUPERSCRIPT_TWO, EM_DASH, CHECK_MARK>>

Range(seq) == {seq[i] : i \in DOMAIN seq}

Chars == Range(AsciiOrder)

CodePoint == [c \in Chars |-> CHOOSE i \in DOMAIN AsciiOrder : AsciiOrder[i] = c]

\* str.isspace() characters (stripped by str.strip())
Whitespace == {" ", "\n"}

\* \w of the re module: letters, digits and the underscore
WordChars ==
    Range(Digits) \cup Range(UpperLetters) \cup Range(LowerLetters) \cup {"_", SUPERSCRIPT_TWO}

\* the class [a-z0-9] under re.IGNORECASE
TokenChars == Range(Digits) \cup Range(UpperLetters) \cup Range(LowerLetters)

LowerChar ==
    [c \in Chars |->
        IF c \in Range(UpperLetters)
        THEN LowerLetters[CHOOSE i \in DOMAIN UpperLetters : UpperLetters[i] = c]
        ELSE c]

(***************************************************************************)
(* Key names used by the extractors                                        *)
(***************************************************************************)
K_job_id == <<"j", "o", "b", "_", "i", "d">>

K_jobId == <<"j", "o", "b", "I", "d">>

K_runtime_job_id == <<"r", "u", "n", "t", "i", "m", "e", "_", "j", "o", "b", "_", "i", "d">>

K_job_ids == <<"j", "o", "b", "_", "i", "d", "s">>

K_jobIds == <<"j", "o", "b", "I", "d", "s">>

K_jobs == <<"j", "o", "b", "s">>

K_ibm_job_ids == <<"i", "b", "m", "_", "j", "o", "b", "_", "i", "d", "s">>

K_execution_metadata == <<"e", "x", "e", "c", "u", "t", "i", "o", "n", "_", "m", "e", "t", "a", "d", "a", "t", "a">>

K_proof == <<"p", "r", "o", "o", "f">>

K_ibm == <<"i", "b", "m">>

K_backend == <<"b", "a", "c", "k", "e", "n", "d">>

K_hardware == <<"h", "a", "r", "d", "w", "a", "r", "e">>

K_summary == <<"s", "u", "m", "m", "a", "r", "y">>

K_shots == <<"s", "h", "o", "t", "s">>

K_runs == <<"r", "u", "n", "s">>

K_results == <<"r", "e", "s", "u", "l", "t", "s">>

K_executions == <<"e", "x", "e", "c", "u", "t", "i", "o", "n", "s">>

K_timestamp == <<"t", "i", "m", "e", "s", "t", "a", "m", "p">>

K_created_utc == <<"c", "r", "e", "a", "t", "e", "d", "_", "u", "t", "c">>

K_created == <<"c", "r", "e", "a", "t", "e", "d">>

K_time == <<"t", "i", "m", "e">>

K_date == <<"d", "a", "t", "e">>

K_metadata == <<"m", "e", "t", "a", "d", "a", "t", "a">>

K_evidence_group_id == <<"e", "v", "i", "d", "e", "n", "c", "e", "_", "g", "r", "o", "u", "p", "_", "i", "d">>

K_root == <<"_", "r", "o", "o", "t">>

K_file == <<"f", "i", "l", "e">>

K_sha256 == <<"s", "h", "a", "2", "5", "6">>

K_size_bytes == <<"s", "i", "z", "e", "_", "b", "y", "t", "e", "s">>

K_git_commit == <<"g", "i", "t", "_", "c", "o", "m", "m", "i", "t">>

K_schema_version == <<"s", "c", "h", "e", "m", "a", "_", "v", "e", "r", "s", "i", "o", "n">>

K_generated_utc == <<"g", "e", "n", "e", "r", "a", "t", "e", "d", "_", "u", "t", "c">>

K_evidence_sets == <<"e", "v", "i", "d", "e", "n", "c", "e", "_", "s", "e", "t", "s">>

(***************************************************************************)
(* Python values: parsed JSON and the results of the extractors            *)
(***************************************************************************)
PyStr(s) == [t |-> "str", s |-> s]

PyInt(n) == [t |-> "int", n |-> n]

\* bool is a subclass of int: isinstance(True, int) holds and True > 0
PyBool(b) == [t |-> "bool", b |-> b]

\* a float is kept by its str() text, the only thing the code asks of it
PyFloat(r) == [t |-> "float", repr |-> r]

None == [t |-> "None"]

PyList(items) == [t |-> "list", items |-> items]

\* a dict keeps insertion order: a sequence of <<key, value>> with distinct keys
PyDict(kv) == [t |-> "dict", kv |-> kv]

IsStr(v) == v.t = "str"

IsInt(v) == v.t \in {"int", "bool"}

IsList(v) == v.t = "list"

IsDict(v) == v.t = "dict"

\* the number a Python int (or bool) compares as
IntVal(v) == IF v.t = "bool" THEN (IF v.b THEN 1 ELSE 0) ELSE v.n

HasKey(d, k) == \E i \in DOMAIN d.kv : d.kv[i][1] = k

\* dict.get(k): the value under k, or None
Get(d, k) ==
    IF HasKey(d, k)
    THEN d.kv[CHOOSE i \in DOMAIN d.kv : d.kv[i][1] = k][2]
    ELSE None

(***************************************************************************)
(* str methods                                                             *)
(***************************************************************************)
lower(s) == [i \in DOMAIN s |-> LowerChar[s[i]]]

strip(s) ==
    LET keep == {i \in DOMAIN s : s[i] \notin Whitespace}
    IN  IF keep = {} THEN <<>>
        ELSE SubSeq(s, CHOOSE i \in keep : \A j \in keep : i <= j,
                       CHOOSE i \in keep : \A j \in keep : i >= j)

startswith(s, p) == Len(s) >= Len(p) /\ SubSeq(s, 1, Len(p)) = p

\* str.startswith(tuple): any of the prefixes
startswith_any(s, prefixes) == \E i \in DOMAIN prefixes : startswith(s, prefixes[i])

\* str.isdigit(): the decimal digits and the other characters of type Digit
isdigit(s) ==
    s # <<>> /\ \A i \in DOMAIN s : s[i] \in Range(Digits) \cup {SUPERSCRIPT_TWO}

\* the exception int(v) raises on a string that is no decimal literal
ValueError == [t |-> "ValueError"]

\* int(s) returns, for a string that passed isdigit()
IsDecimal(s) == \A i \in DOMAIN s : s[i] \in Range(Digits)

DigitVal(c) == (CHOOSE i \in DOMAIN Digits : Digits[i] = c) - 1

\* int(s) for a string of decimal digits
RECURSIVE int(_)
int(s) ==
    IF s = <<>> THEN 0
    ELSE 10 * int(SubSeq(s, 1, Len(s) - 1)) + DigitVal(s[Len(s)])

RECURSIVE NatToStr(_)
NatToStr(n) ==
    IF n < 10 THEN <<Digits[n + 1]>>
    ELSE NatToStr(n \div 10) \o <<Digits[(n % 10) + 1]>>

\* str(v) for the scalars the text scan keeps
ensure_text(v) ==
    CASE v.t = "str" -> v.s
      [] v.t = "int" -> IF v.n < 0 THEN <<"-">> \o NatToStr(-v.n) ELSE NatToStr(v.n)
      [] v.t = "bool" -> IF v.b THEN <<"T", "r", "u", "e">> ELSE <<"F", "a", "l", "s", "e">>
      [] v.t = "float" -> v.repr

\* sep.join(parts)
RECURSIVE join(_, _)
join(sep, parts) ==
    IF parts = <<>> THEN <<>>
    ELSE IF Len(parts) = 1 THEN parts[1]
    ELSE parts[1] \o sep \o join(sep, Tail(parts))

\* the list/set idiom "if x not in seen: seen.add(x); out.append(x)"
RECURSIVE dedupe(_)
dedupe(xs) ==
    IF xs = <<>> THEN <<>>
    ELSE LET front == dedupe(SubSeq(xs, 1, Len(xs) - 1))
             x == xs[Len(xs)]
         IN  IF x \in Range(front) THEN front ELSE Append(front, x)

(***************************************************************************)
(* Utils                                                                   *)
(***************************************************************************)
RECURSIVE walk_all_values(_), WalkDict(_, _), WalkList(_, _)
\* every key (as a str) followed by the leaves of its value, then on
WalkDict(kv, i) ==
    IF i > Len(kv) THEN <<>>
    ELSE <<PyStr(kv[i][1])>> \o walk_all_values(kv[i][2]) \o WalkDict(kv, i + 1)

WalkList(items, i) ==
    IF i > Len(items) THEN <<>>
    ELSE walk_all_values(items[i]) \o WalkList(items, i + 1)

walk_all_values(obj) ==
    IF IsDict(obj) THEN WalkDict(obj.kv, 1)
    ELSE IF IsList(obj) THEN WalkList(obj.items, 1)
    ELSE <<obj>>

RECURSIVE deep_get(_, _)
deep_get(cur, path) ==
    IF path = <<>> THEN cur
    ELSE IF ~IsDict(cur) \/ ~HasKey(cur, Head(path)) THEN None
    ELSE deep_get(Get(cur, Head(path)), Tail(path))

(***************************************************************************)
(* Job-id recognition                                                      *)
(***************************************************************************)
TOKEN_MIN == 10

TOKEN_MAX == 40

MIN_JOB_ID_LEN == 12

LIKELY_JOB_PREFIX == << <<"d", "0">>, <<"c", "0">> >>

IsWordAt(text, i) == i \in DOMAIN text /\ text[i] \in WordChars

\* \b before position i: exactly one of text[i-1], text[i] is a word character
Boundary(text, i) == IsWordAt(text, i - 1) # IsWordAt(text, i)

\* how many characters of [a-z0-9] start at i, at most TOKEN_MAX (the greedy scan)
TokenRun(text, i) ==
    LET fits == {n \in 0..TOKEN_MAX :
                    \A k \in 0..(n - 1) : (i + k) \in DOMAIN text /\ text[i + k] \in TokenChars}
    IN  CHOOSE n \in fits : \A k \in fits : k <= n

\* the match of \b[a-z0-9]{10,40}\b starting at i: its length, 0 for none.
\* The quantifier is greedy and backs off until \b holds after the match.
MatchAt(text, i) ==
    IF ~Boundary(text, i) THEN 0
    ELSE LET run == TokenRun(text, i)
             ends == {m \in TOKEN_MIN..run : Boundary(text, i + m)}
         IN  IF ends = {} THEN 0 ELSE CHOOSE m \in ends : \A k \in ends : k <= m

\* JOB_ID_TOKEN_RE.findall(text) from position i on: the leftmost match, then
\* the matches after its end
RECURSIVE findall(_, _)
findall(text, i) ==
    LET starts == {j \in i..Len(text) : MatchAt(text, j) # 0}
    IN  IF starts = {} THEN <<>>
        ELSE LET j == CHOOSE s \in starts : \A k \in starts : s <= k
                 m == MatchAt(text, j)
             IN  <<SubSeq(text, j, j + m - 1)>> \o findall(text, j + m)

\* the filter of the text scan (line 111)
TextFilter(c) == startswith_any(c, LIKELY_JOB_PREFIX) /\ Len(c) >= MIN_JOB_ID_LEN

extract_job_ids_from_text(text) ==
    dedupe(SelectSeq(findall(lower(text), 1), TextFilter))

(***************************************************************************)
(* Extraction                                                              *)
(***************************************************************************)
\* the concatenation of a sequence of sequences
RECURSIVE Flatten(_)
Flatten(ss) == IF ss = <<>> THEN <<>> ELSE Head(ss) \o Flatten(Tail(ss))

\* the strings of a sequence of values: [x for x in v if isinstance(x, str)]
StrItems(items) ==
    Flatten([i \in DOMAIN items |-> IF IsStr(items[i]) THEN <<items[i].s>> ELSE <<>>])

JOB_ID_KEYS == <<K_job_id, K_jobId, K_runtime_job_id>>

JOB_ID_LIST_KEYS == <<K_job_ids, K_jobIds, K_jobs, K_ibm_job_ids>>

JOB_ID_NESTED_PATHS ==
    << <<K_execution_metadata, K_job_id>>,
       <<K_execution_metadata, K_jobId>>,
       <<K_proof, K_execution_metadata, K_job_id>>,
       <<K_proof, K_execution_metadata, K_jobId>>,
       <<K_ibm, K_job_id>>,
       <<K_ibm, K_jobId>> >>

\* 1) common direct keys
DirectJobIds(obj) ==
    IF ~IsDict(obj) THEN <<>>
    ELSE Flatten([i \in DOMAIN JOB_ID_KEYS |->
                    LET v == Get(obj, JOB_ID_KEYS[i])
                    IN  IF IsStr(v) THEN <<v.s>> ELSE <<>>])
         \o Flatten([i \in DOMAIN JOB_ID_LIST_KEYS |->
                    LET v == Get(obj, JOB_ID_LIST_KEYS[i])
                    IN  IF IsList(v) THEN StrItems(v.items) ELSE <<>>])

\* 2) common nested keys
NestedJobIds(obj) ==
    Flatten([i \in DOMAIN JOB_ID_NESTED_PATHS |->
                LET v == deep_get(obj, JOB_ID_NESTED_PATHS[i])
                IN  IF IsStr(v) THEN <<v.s>> ELSE <<>>])

\* 3) the text of every str, int (bool too) and float among keys and leaves
AllText(obj) ==
    LET leaves == walk_all_values(obj)
        kept == SelectSeq(leaves, LAMBDA v : IsStr(v) \/ IsInt(v) \/ v.t = "float")
    IN  join(<<"\n">>, [i \in DOMAIN kept |-> ensure_text(kept[i])])

\* the test of the final loop on a stripped, lower-cased candidate (lines 160-164)
FinalFilter(xlow) == xlow # <<>> /\ startswith_any(xlow, LIKELY_JOB_PREFIX)

\* normalize + dedupe
NormalizeIds(ids) ==
    dedupe(SelectSeq([i \in DOMAIN ids |-> lower(strip(ids[i]))], FinalFilter))

\* variant: the hits of the text scan are put before the structured ones
extract_job_ids_TextFirst(obj) ==
    NormalizeIds(extract_job_ids_from_text(AllText(obj))
                    \o DirectJobIds(obj) \o NestedJobIds(obj))

extract_job_ids(obj) ==
    NormalizeIds(DirectJobIds(obj) \o NestedJobIds(obj)
                    \o extract_job_ids_from_text(AllText(obj)))

\* the first index of seq whose element satisfies Test, 0 for none
FirstIndex(seq, Test(_)) ==
    IF \E i \in DOMAIN seq : Test(seq[i])
    THEN CHOOSE i \in DOMAIN seq : Test(seq[i]) /\ \A j \in 1..(i - 1) : ~Test(seq[j])
    ELSE 0

NonBlankStr(v) == IsStr(v) /\ strip(v.s) # <<>>

BACKEND_PATHS ==
    << <<K_backend>>,
       <<K_hardware, K_backend>>,
       <<K_execution_metadata, K_backend>>,
       <<K_proof, K_execution_metadata, K_backend>>,
       <<K_ibm, K_backend>>,
       <<K_summary, K_backend>> >>

IBM_PREFIX == <<"i", "b", "m", "_">>

extract_backend(obj) ==
    LET found == [i \in DOMAIN BACKEND_PATHS |-> deep_get(obj, BACKEND_PATHS[i])]
        hit == FirstIndex(found, NonBlankStr)
        leaves == walk_all_values(obj)
        scan == FirstIndex(leaves, LAMBDA v : IsStr(v) /\ startswith(v.s, IBM_PREFIX))
    IN  IF hit # 0 THEN PyStr(strip(found[hit].s))
        ELSE IF scan # 0 THEN leaves[scan]
        ELSE None

SHOTS_PATHS ==
    << <<K_shots>>,
       <<K_summary, K_shots>>,
       <<K_execution_metadata, K_shots>>,
       <<K_proof, K_execution_metadata, K_shots>>,
       <<K_ibm, K_shots>> >>

RUN_LIST_KEYS == <<K_runs, K_results, K_jobs, K_executions>>

\* isinstance(v, int) and v > 0
PositiveInt(v) == IsInt(v) /\ IntVal(v) > 0

\* isinstance(v, str) and v.isdigit()
DigitStr(v) == IsStr(v) /\ isdigit(v.s)

\* what the candidate loop returns on a value it accepts (lines 203-206)
ShotsAt(v) ==
    IF PositiveInt(v) THEN v
    ELSE IF IsDecimal(v.s) THEN PyInt(int(v.s))
    ELSE ValueError

\* variant: the lists are visited in the order of the document's keys
RunItems_DocumentOrder(obj) ==
    IF ~IsDict(obj) THEN <<>>
    ELSE Flatten([i \in DOMAIN obj.kv |->
                    IF obj.kv[i][1] \in Range(RUN_LIST_KEYS) /\ IsList(obj.kv[i][2])
                    THEN obj.kv[i][2].items
                    ELSE <<>>])

\* the items of the lists under runs/results/jobs/executions, in that order
RunItems(obj) ==
    IF ~IsDict(obj) THEN <<>>
    ELSE Flatten([i \in DOMAIN RUN_LIST_KEYS |->
                    LET v == Get(obj, RUN_LIST_KEYS[i])
                    IN  IF IsList(v) THEN v.items ELSE <<>>])

extract_shots(obj) ==
    LET found == [i \in DOMAIN SHOTS_PATHS |-> deep_get(obj, SHOTS_PATHS[i])]
        hit == FirstIndex(found, LAMBDA v : PositiveInt(v) \/ DigitStr(v))
        items == RunItems(obj)
        nested == [i \in DOMAIN items |-> deep_get(items[i], <<K_shots>>)]
        run == FirstIndex(nested, PositiveInt)
    IN  IF hit # 0 THEN ShotsAt(found[hit])
        ELSE IF run # 0 THEN nested[run]
        ELSE None

TIMESTAMP_KEYS == <<K_timestamp, K_created_utc, K_created, K_time, K_date>>

TIMESTAMP_PATHS ==
    << <<K_summary, K_timestamp>>,
       <<K_metadata, K_timestamp>>,
       <<K_execution_metadata, K_timestamp>> >>

extract_timestamp(obj) ==
    LET direct == IF IsDict(obj)
                  THEN [i \in DOMAIN TIMESTAMP_KEYS |-> Get(obj, TIMESTAMP_KEYS[i])]
                  ELSE <<>>
        found == direct \o [i \in DOMAIN TIMESTAMP_PATHS |-> deep_get(obj, TIMESTAMP_PATHS[i])]
        hit == FirstIndex(found, NonBlankStr)
    IN  IF hit # 0 THEN PyStr(strip(found[hit].s)) ELSE None

\* variant: whatever is under evidence_group_id is taken as it is
detect_evidence_group_id_Unchecked(obj, fallback) ==
    IF IsDict(obj) /\ HasKey(obj, K_evidence_group_id)
    THEN Get(obj, K_evidence_group_id)
    ELSE fallback

detect_evidence_group_id(obj, fallback) ==
    IF IsDict(obj) /\ NonBlankStr(Get(obj, K_evidence_group_id))
    THEN PyStr(strip(Get(obj, K_evidence_group_id).s))
    ELSE fallback

(***************************************************************************)
(* Files                                                                   *)
(*                                                                         *)
(* The evidence directory maps a file name (flat, relative to base_dir) to *)
(* its content.  A content is the file's text, or, for a file holding      *)
(* valid JSON, the value json.loads returns on it; the reports the tool    *)
(* writes are kept as the data they are rendered from.                     *)
(***************************************************************************)
TextFile(text) == [t |-> "text", text |-> text]

JsonFile(doc) == [t |-> "json", doc |-> doc]

ReportFile(kind, data) == [t |-> "report", kind |-> kind, data |-> data]

\* hashlib's hexdigest of the file's bytes: equal exactly for equal contents.
\* It is 64 hex characters, so it is a leaf that is never a token of
\* JOB_ID_TOKEN_RE, and it is kept as a value of its own kind.
sha256_file(content) == [t |-> "digest", of |-> content]

RECURSIVE SumSeq(_)
SumSeq(f) == IF f = <<>> THEN 0 ELSE Head(f) + SumSeq(Tail(f))

\* len(json.dumps(v)) with the default separators
RECURSIVE JsonLen(_)
JsonLen(v) ==
    LET Sep(n) == IF n = 0 THEN 0 ELSE 2 * (n - 1)
    IN  CASE v.t = "str" -> Len(v.s) + 2 + Cardinality({i \in DOMAIN v.s : v.s[i] = "\n"})
                            + 5 * Cardinality({i \in DOMAIN v.s : v.s[i] = SUPERSCRIPT_TWO})
          [] v.t = "int" -> Len(ensure_text(v))
          [] v.t = "bool" -> IF v.b THEN 4 ELSE 5
          [] v.t = "float" -> Len(v.repr)
          [] v.t = "None" -> 4
          [] v.t = "digest" -> 66
          [] v.t = "list" -> 2 + SumSeq([i \in DOMAIN v.items |-> JsonLen(v.items[i])])
                               + Sep(Len(v.items))
          [] v.t = "dict" -> 2 + SumSeq([i \in DOMAIN v.kv |->
                                           Len(v.kv[i][1]) + 4 + JsonLen(v.kv[i][2])])
                               + Sep(Len(v.kv))

\* 0-based str.rfind("."), -1 for none
RFindDot(name) ==
    LET dots == {i \in DOMAIN name : name[i] = "."}
    IN  IF dots = {} THEN -1 ELSE (CHOOSE i \in dots : \A j \in dots : j <= i) - 1

\* PurePath.suffix
suffix(name) ==
    LET i == RFindDot(name)
    IN  IF 0 < i /\ i < Len(name) - 1 THEN SubSeq(name, i + 1, Len(name)) ELSE <<>>

\* PurePath.stem
stem(name) ==
    LET i == RFindDot(name)
    IN  IF 0 < i /\ i < Len(name) - 1 THEN SubSeq(name, 1, i) ELSE name

endswith(s, e) == Len(s) >= Len(e) /\ SubSeq(s, Len(s) - Len(e) + 1, Len(s)) = e

DOT_JSON == <<".", "j", "s", "o", "n">>

DOT_MD == <<".", "m", "d">>

\* str < str: by code points, a proper prefix first
RECURSIVE StrLess(_, _)
StrLess(a, b) ==
    IF b = <<>> THEN FALSE
    ELSE IF a = <<>> THEN TRUE
    ELSE IF Head(a) = Head(b) THEN StrLess(Tail(a), Tail(b))
    ELSE CodePoint[Head(a)] < CodePoint[Head(b)]

\* sorted(xs, key=...) where keys[i] is the str key of xs[i]: a stable
\* insertion sort
RECURSIVE SortedBy(_, _)
SortedBy(xs, keys) ==
    IF xs = <<>> THEN <<>>
    ELSE LET n == Len(xs) - 1
             rest == SortedBy(SubSeq(xs, 1, n), SubSeq(keys, 1, n))
             restKeys == SortedBy(SubSeq(keys, 1, n), SubSeq(keys, 1, n))
             before == {i \in DOMAIN rest : ~StrLess(keys[n + 1], restKeys[i])}
             m == Cardinality(before)
         IN  SubSeq(rest, 1, m) \o <<xs[n + 1]>> \o SubSeq(rest, m + 1, Len(rest))

(***************************************************************************)
(* Reports: the text of SHA256SUMS, INDEX.md and WARNINGS.md               *)
(***************************************************************************)
L_index_title ==
    <<"#", " ", "E", "v", "i", "d", "e", "n", "c", "e", " ", "I", "n", "d", "e", "x", " ",
      EM_DASH, " ", "d", "o", "c", "s", "/", "e", "v", "i", "d", "e", "n", "c", "e">>

L_generated ==
    <<"-", " ", "G", "e", "n", "e", "r", "a", "t", "e", "d", ":", " ">>

L_git_commit ==
    <<"-", " ", "G", "i", "t", " ", "c", "o", "m", "m", "i", "t", ":", " ">>

L_files ==
    <<"#", "#", " ", "F", "i", "l", "e", "s">>

L_h3 ==
    <<"#", "#", "#", " ">>

L_sha256 ==
    <<"-", " ", "S", "H", "A", "2", "5", "6", ":", " ">>

L_backend ==
    <<"-", " ", "B", "a", "c", "k", "e", "n", "d", ":", " ">>

L_shots ==
    <<"-", " ", "S", "h", "o", "t", "s", ":", " ">>

L_timestamp ==
    <<"-", " ", "T", "i", "m", "e", "s", "t", "a", "m", "p", ":", " ">>

L_job_ids ==
    <<"-", " ", "J", "o", "b", " ", "I", "D", "s", " ", "(">>

L_job_ids_end ==
    <<")", ":">>

L_sub_item ==
    <<" ", " ", "-", " ">>

L_group ==
    <<"-", " ", "e", "v", "i", "d", "e", "n", "c", "e", "_", "g", "r", "o", "u", "p", "_",
      "i", "d", ":", " ">>

L_warn_title ==
    <<"#", " ", "E", "v", "i", "d", "e", "n", "c", "e", " ", "W", "a", "r", "n", "i", "n",
      "g", "s", " ", "/", " ", "C", "o", "n", "s", "i", "s", "t", "e", "n", "c", "y", " ",
      "R", "e", "p", "o", "r", "t">>

L_dash_title ==
    <<"#", "#", " ", "D", "a", "s", "h", "b", "o", "a", "r", "d", " ", "j", "o", "b", " ",
      "I", "D", "s", " ", "n", "o", "t", " ", "f", "o", "u", "n", "d", " ", "i", "n", " ",
      "J", "S", "O", "N", " ", "e", "v", "i", "d", "e", "n", "c", "e">>

L_dash_text ==
    <<"T", "h", "e", "s", "e", " ", "j", "o", "b", " ", "I", "D", "s", " ", "a", "p", "p",
      "e", "a", "r", " ", "i", "n", " ", "d", "a", "s", "h", "b", "o", "a", "r", "d", " ",
      "m", "a", "r", "k", "d", "o", "w", "n", "(", "s", ")", " ", "b", "u", "t", " ", "w",
      "e", "r", "e", " ", "n", "o", "t", " ", "f", "o", "u", "n", "d", " ", "i", "n", " ",
      "a", "n", "y", " ", "J", "S", "O", "N", " ", "e", "v", "i", "d", "e", "n", "c", "e",
      " ", "f", "i", "l", "e", ":">>

L_item ==
    <<"-", " ">>

L_recommend ==
    <<"R", "e", "c", "o", "m", "m", "e", "n", "d", "a", "t", "i", "o", "n", ":", " ", "a",
      "d", "d", " ", BACKTICK, "e", "v", "i", "d", "e", "n", "c", "e", "_", "g", "r", "o",
      "u", "p", "_", "i", "d", BACKTICK, " ", "a", "n", "d", " ", "e", "n", "s", "u", "r",
      "e", " ", "t", "h", "e", " ", "d", "a", "s", "h", "b", "o", "a", "r", "d", " ", "M",
      "D", " ", "r", "e", "f", "e", "r", "e", "n", "c", "e", "s", " ", "t", "h", "e", " ",
      "s", "a", "m", "e", " ", "g", "r", "o", "u", "p", " ", "+", " ", "j", "o", "b", "_",
      "i", "d", " ", "a", "s", " ", "t", "h", "e", " ", "J", "S", "O", "N", " ", "a", "r",
      "t", "i", "f", "a", "c", "t", ".">>

L_h2 ==
    <<"#", "#", " ">>

L_missing_backend ==
    <<"J", "S", "O", "N", " ", "e", "v", "i", "d", "e", "n", "c", "e", " ", "m", "i", "s",
      "s", "i", "n", "g", " ", BACKTICK, "b", "a", "c", "k", "e", "n", "d", BACKTICK, " ",
      "f", "i", "e", "l", "d">>

L_missing_shots ==
    <<"J", "S", "O", "N", " ", "e", "v", "i", "d", "e", "n", "c", "e", " ", "m", "i", "s",
      "s", "i", "n", "g", " ", BACKTICK, "s", "h", "o", "t", "s", BACKTICK, " ", "f", "i",
      "e", "l", "d">>

L_missing_timestamp ==
    <<"J", "S", "O", "N", " ", "e", "v", "i", "d", "e", "n", "c", "e", " ", "m", "i", "s",
      "s", "i", "n", "g", " ", BACKTICK, "t", "i", "m", "e", "s", "t", "a", "m", "p",
      BACKTICK, " ", "f", "i", "e", "l", "d">>

L_missing_job_ids ==
    <<"J", "S", "O", "N", " ", "e", "v", "i", "d", "e", "n", "c", "e", " ", "m", "i", "s",
      "s", "i", "n", "g", " ", BACKTICK, "j", "o", "b", "_", "i", "d", "s", BACKTICK, " ",
      "f", "i", "e", "l", "d">>

L_no_issues ==
    <<"N", "o", " ", "i", "s", "s", "u", "e", "s", " ", "d", "e", "t", "e", "c", "t", "e",
      "d", " ", "b", "y", " ", "c", "u", "r", "r", "e", "n", "t", " ", "h", "e", "u", "r",
      "i", "s", "t", "i", "c", "s", ".", " ", CHECK_MARK>>

EntryFile(e) == Get(e, K_file).s

\* sorted(entries, key=lambda x: x["file"])
SortedByFile(entries) == SortedBy(entries, [i \in DOMAIN entries |-> EntryFile(entries[i])])

\* the lines of SHA256SUMS, as <<digest, file>>
Sha256Sums(entries) ==
    LET es == SortedByFile(entries)
    IN  [i \in DOMAIN es |-> <<Get(es[i], K_sha256), EntryFile(es[i])>>]

\* the text of a hexdigest: 64 characters out of 0-9a-f.  Which ones they are
\* the model leaves open; every such text is one run of letters and digits
\* too long for a token, and none holds the marker word.
HEX_DIGEST == [i \in 1..64 |-> "f"]

\* what an f-string puts for a value of a record
format(v) == IF v.t = "digest" THEN HEX_DIGEST ELSE ensure_text(v)

Tick(s) == <<BACKTICK>> \o s \o <<BACKTICK>>

\* the lines write_index_md appends for one record (lines 295-308)
IndexEntryLines(e) ==
    <<L_h3 \o EntryFile(e), L_sha256 \o Tick(format(Get(e, K_sha256)))>>
    \o (IF HasKey(e, K_backend)
        THEN <<L_backend \o Tick(format(Get(e, K_backend)))>> ELSE <<>>)
    \o (IF HasKey(e, K_shots)
        THEN <<L_shots \o Tick(format(Get(e, K_shots)))>> ELSE <<>>)
    \o (IF HasKey(e, K_timestamp)
        THEN <<L_timestamp \o Tick(format(Get(e, K_timestamp)))>> ELSE <<>>)
    \o (IF HasKey(e, K_job_ids)
        THEN LET ids == Get(e, K_job_ids).items
             IN  <<L_job_ids \o NatToStr(Len(ids)) \o L_job_ids_end>>
                 \o [i \in DOMAIN ids |-> L_sub_item \o Tick(format(ids[i]))]
        ELSE <<>>)
    \o <<L_group \o Tick(format(Get(e, K_evidence_group_id))), <<>>>>

\* the text of INDEX.md
IndexText(data) ==
    join(<<"\n">>,
         <<L_index_title, <<>>,
           L_generated \o format(data.generated_utc),
           L_git_commit \o Tick(format(data.git_commit)),
           <<>>, L_files, <<>>>>
         \o Flatten([i \in DOMAIN data.files |-> IndexEntryLines(data.files[i])]))

\* the lines of one section of WARNINGS.md (lines 359-365)
section(title, items) ==
    IF items = <<>> THEN <<>>
    ELSE LET its == SortedBy(items, items)
         IN  <<L_h2 \o title>> \o [i \in DOMAIN its |-> L_item \o its[i]] \o << <<>> >>

\* the text of WARNINGS.md
WarningsText(data) ==
    LET found == data.findings
        lines == <<L_warn_title, <<>>,
                   L_generated \o format(data.generated_utc),
                   L_git_commit \o Tick(format(data.git_commit)),
                   <<>>>>
                 \o (IF found.missing_in_json # <<>>
                     THEN <<L_dash_title, L_dash_text, <<>>>>
                          \o [i \in DOMAIN found.missing_in_json |->
                                L_item \o Tick(found.missing_in_json[i])]
                          \o << <<>>, L_recommend, <<>> >>
                     ELSE <<>>)
                 \o section(L_missing_backend, found.missing_backend)
                 \o section(L_missing_shots, found.missing_shots)
                 \o section(L_missing_timestamp, found.missing_timestamp)
                 \o section(L_missing_job_ids, found.missing_job_ids)
    IN  join(<<"\n">>, IF Len(lines) <= 6 THEN lines \o <<L_no_issues, <<>>>> ELSE lines)

\* the text of SHA256SUMS
Sha256SumsText(data) ==
    join(<<"\n">>, [i \in DOMAIN data |-> format(data[i][1]) \o <<" ", " ">> \o data[i][2]])
        \o <<"\n">>

\* Path.read_text of a text file or of a report the tool wrote
read_text(content) ==
    CASE content.t = "text" -> content.text
      [] content.t = "report" /\ content.kind = "INDEX" -> IndexText(content.data)
      [] content.t = "report" /\ content.kind = "WARNINGS" -> WarningsText(content.data)
      [] content.t = "report" /\ content.kind = "SHA256SUMS" -> Sha256SumsText(content.data)

\* the bytes of a text in UTF-8
\* one byte for a character of ASCII, two for U+00B2, three for U+2014 and U+2705
Utf8Len(text) ==
    Len(text) + Cardinality({i \in DOMAIN text : text[i] = SUPERSCRIPT_TWO})
        + 2 * Cardinality({i \in DOMAIN text : text[i] \in {EM_DASH, CHECK_MARK}})

JSON_INDENT == 2

\* len(json.dumps(v, indent=2))
RECURSIVE JsonLenIndent(_, _)
JsonLenIndent(v, depth) ==
    LET Pad(d) == JSON_INDENT * d
        Wrap(n, inner) == IF n = 0 THEN 2
                          ELSE 2 + inner + n * Pad(depth + 1) + 2 * (n - 1) + 2 + Pad(depth)
    IN  CASE v.t = "list" ->
                Wrap(Len(v.items),
                     SumSeq([i \in DOMAIN v.items |-> JsonLenIndent(v.items[i], depth + 1)]))
          [] v.t = "dict" ->
                Wrap(Len(v.kv),
                     SumSeq([i \in DOMAIN v.kv |->
                               JsonLen(PyStr(v.kv[i][1])) + 2
                                   + JsonLenIndent(v.kv[i][2], depth + 1)]))
          [] OTHER -> JsonLen(v)

\* the manifest.json the tool writes: json.dumps(manifest, indent=2, sort_keys=True)
JsonDump(doc) == [t |-> "json", doc |-> doc, indent |-> JSON_INDENT]

\* os.stat().st_size
st_size(content) ==
    CASE content.t = "text" -> Utf8Len(content.text)
      [] content.t = "report" -> Utf8Len(read_text(content))
      [] content.t = "json" /\ "indent" \in DOMAIN content -> JsonLenIndent(content.doc, 0)
      [] content.t = "json" -> JsonLen(content.doc)

(***************************************************************************)
(* Files + outputs                                                         *)
(***************************************************************************)
\* bool(v): what "if v:" tests
Truthy(v) ==
    CASE v.t = "None" -> FALSE
      [] v.t = "str" -> v.s # <<>>
      [] v.t = "int" -> v.n # 0
      [] v.t = "bool" -> v.b
      [] v.t = "list" -> v.items # <<>>
      [] v.t = "dict" -> v.kv # <<>>
      [] OTHER -> TRUE

\* variant: every optional key is set, with null or [] where nothing was found
OptionalFields_Placeholders(obj) ==
    LET job_ids == extract_job_ids(obj)
    IN  << <<K_backend, extract_backend(obj)>>,
           <<K_timestamp, extract_timestamp(obj)>>,
           <<K_shots, extract_shots(obj)>>,
           <<K_job_ids, PyList([i \in DOMAIN job_ids |-> PyStr(job_ids[i])])>> >>

\* the optional keys, in the order build_entry sets them
OptionalFields(obj) ==
    LET backend == extract_backend(obj)
        ts == extract_timestamp(obj)
        shots == extract_shots(obj)
        job_ids == extract_job_ids(obj)
    IN  (IF Truthy(backend) THEN << <<K_backend, backend>> >> ELSE <<>>)
        \o (IF Truthy(ts) THEN << <<K_timestamp, ts>> >> ELSE <<>>)
        \o (IF shots # None THEN << <<K_shots, shots>> >> ELSE <<>>)
        \o (IF job_ids # <<>>
            THEN << <<K_job_ids, PyList([i \in DOMAIN job_ids |-> PyStr(job_ids[i])])>> >>
            ELSE <<>>)

\* the record, or the exception that leaves build_entry from line 265
build_entry(name, content, obj, commit) ==
    IF Truthy(obj) /\ extract_shots(obj) = ValueError THEN ValueError
    ELSE
    PyDict(<< <<K_file, PyStr(name)>>,
              <<K_sha256, sha256_file(content)>>,
              <<K_size_bytes, PyInt(st_size(content))>>,
              <<K_git_commit, commit>>,
              <<K_evidence_group_id,
                IF Truthy(obj) THEN detect_evidence_group_id(obj, PyStr(stem(name)))
                ELSE PyStr(stem(name))>> >>
           \o (IF Truthy(obj) THEN OptionalFields(obj) ELSE <<>>))

\* json.dumps(v, sort_keys=True) followed by json.loads: the same value with
\* the keys of every dict in sorted order
RECURSIVE SortKeys(_)
SortKeys(v) ==
    IF IsDict(v)
    THEN PyDict(SortedBy([i \in DOMAIN v.kv |-> <<v.kv[i][1], SortKeys(v.kv[i][2])>>],
                         [i \in DOMAIN v.kv |-> v.kv[i][1]]))
    ELSE IF IsList(v) THEN PyList([i \in DOMAIN v.items |-> SortKeys(v.items[i])])
    ELSE v

\* sub in s
Contains(s, sub) ==
    \E i \in 0..(Len(s) - Len(sub)) : SubSeq(s, i + 1, i + Len(sub)) = sub

DASHBOARD == <<"d", "a", "s", "h", "b", "o", "a", "r", "d">>

IsJsonRecord(e) == endswith(lower(EntryFile(e)), DOT_JSON)

IsMdRecord(e) == endswith(lower(EntryFile(e)), DOT_MD)

\* sorted(S) for a set of str
RECURSIVE SortedSet(_)
SortedSet(S) ==
    IF S = {} THEN <<>>
    ELSE LET least == CHOOSE x \in S : \A y \in S : ~StrLess(y, x)
         IN  <<least>> \o SortedSet(S \ {least})

\* dashboard_job_ids after the loop over the records (lines 320-328)
DashboardJobIds(dir, sets) ==
    UNION {Range(extract_job_ids_from_text(read_text(dir[EntryFile(sets[i])]))) :
             i \in {j \in DOMAIN sets :
                      /\ IsMdRecord(sets[j])
                      /\ Contains(lower(read_text(dir[EntryFile(sets[j])])), DASHBOARD)}}

\* json_job_ids after the loop over the records (lines 330-331)
JsonJobIds(sets) ==
    UNION {{lower(jid.s) : jid \in Range(Get(sets[i], K_job_ids).items)} :
             i \in {j \in DOMAIN sets :
                      IsJsonRecord(sets[j]) /\ HasKey(sets[j], K_job_ids)}}

\* variant: the suffix test without lower()
MissingField_CaseSensitive(sets, key) ==
    LET hit == SelectSeq(sets, LAMBDA e : endswith(EntryFile(e), DOT_JSON) /\ ~HasKey(e, key))
    IN  [i \in DOMAIN hit |-> EntryFile(hit[i])]

\* [e["file"] for e in sets if e["file"].lower().endswith(".json") and key not in e]
MissingField(sets, key) ==
    LET hit == SelectSeq(sets, LAMBDA e : IsJsonRecord(e) /\ ~HasKey(e, key))
    IN  [i \in DOMAIN hit |-> EntryFile(hit[i])]

\* variant: no dashboard id is cleared by the .json records
Findings_NothingCleared(dir, mf) ==
    LET sets == Get(mf, K_evidence_sets).items
    IN  [missing_in_json |-> SortedSet(DashboardJobIds(dir, sets)),
         missing_backend |-> MissingField(sets, K_backend),
         missing_shots |-> MissingField(sets, K_shots),
         missing_timestamp |-> MissingField(sets, K_timestamp),
         missing_job_ids |-> MissingField(sets, K_job_ids)]

\* what write_warnings_md computes before rendering (lines 313-340)
Findings(dir, mf) ==
    LET sets == Get(mf, K_evidence_sets).items
        json_job_ids == JsonJobIds(sets)
    IN  [missing_in_json |->
            SortedSet({jid \in DashboardJobIds(dir, sets) : lower(jid) \notin json_job_ids}),
         missing_backend |-> MissingField(sets, K_backend),
         missing_shots |-> MissingField(sets, K_shots),
         missing_timestamp |-> MissingField(sets, K_timestamp),
         missing_job_ids |-> MissingField(sets, K_job_ids)]

MANIFEST_JSON == <<"m", "a", "n", "i", "f", "e", "s", "t", ".", "j", "s", "o", "n">>

SHA256SUMS == <<"S", "H", "A", "2", "5", "6", "S", "U", "M", "S">>

INDEX_MD == <<"I", "N", "D", "E", "X", ".", "m", "d">>

WARNINGS_MD == <<"W", "A", "R", "N", "I", "N", "G", "S", ".", "m", "d">>

\* Path.write_text: create or replace one file of the directory
WriteFile(dir, name, content) ==
    [n \in DOMAIN dir \cup {name} |-> IF n = name THEN content ELSE dir[n]]

SCHEMA_VERSION == 2

(***************************************************************************)
(* Inputs: the strings, documents and directories main is run over       *)
(***************************************************************************)
\* a job id: prefix d0, 12 characters
S_id1 == <<"d", "0", "a", "1", "b", "2", "c", "3", "d", "4", "e", "5">>

\* the same id in upper case
S_ID1 == <<"D", "0", "A", "1", "B", "2", "C", "3", "D", "4", "E", "5">>

\* a job id: prefix c0, 14 characters
S_id2 == <<"c", "0", "f", "f", "e", "e", "0", "0", "1", "1", "2", "2", "3", "3">>

\* a token of 10 characters: matched by the regex, below the length filter
S_short == <<"d", "0", "a", "1", "b", "2", "c", "3", "d", "4">>

\* prefix d0, 3 characters
S_tiny == <<"d", "0", "x">>

\* no recognized prefix
S_x7 == <<"X", "7">>

\* an id with surrounding whitespace
S_padded == <<" ", "d", "0", "a", "1", "b", "2", "c", "3", "d", "4", "e", "5", "\n">>

\* prefix d0 followed by characters that are no letters or digits
S_dashed == <<"d", "0", "-", "r", "u", "n", " ", "7">>

\* prefix d0, 41 letters: longer than any token
S_long == <<"d", "0", "a", "a", "a", "a", "a", "a", "a", "a", "a", "a", "a", "a", "a", "a", "a", "a", "a", "a", "a", "a", "a", "a", "a", "a", "a", "a", "a", "a", "a", "a", "a", "a", "a", "a", "a", "a", "a", "a", "a">>

\* an id glued to a word by an underscore
S_under == <<"j", "o", "b", "_", "d", "0", "a", "1", "b", "2", "c", "3", "d", "4", "e", "5">>

\* an id inside a path
S_url == <<"q", "/", "j", "o", "b", "s", "/", "c", "0", "f", "f", "e", "e", "0", "0", "1", "1", "2", "2", "3", "3", ",", "o", "k">>

\* 14 letters and digits without a recognized prefix
S_other == <<"e", "1", "f", "2", "a", "3", "b", "4", "c", "5", "d", "6", "e", "7">>

\* a backend name
S_ibm == <<"i", "b", "m", "_", "k", "y", "o", "t", "o">>

\* a backend name with surrounding whitespace
S_ibm_sp == <<" ", "i", "b", "m", "_", "k", "y", "o", "t", "o", " ">>

\* a backend name without the ibm_ prefix
S_sim == <<"s", "i", "m", "u", "l", "a", "t", "o", "r">>

\* a blank string
S_blank == <<" ", " ">>

\* the empty string
S_empty == <<>>

\* digits with value zero
S_0 == <<"0">>

\* digits
S_500 == <<"5", "0", "0">>

\* digits with leading zeros
S_007 == <<"0", "0", "7">>

\* a sign and a digit
S_neg == <<"-", "5">>

\* digits after a space
\* superscript two, alone and after a decimal digit
S_sup2 == <<SUPERSCRIPT_TWO>>

S_5sup2 == <<"5", SUPERSCRIPT_TWO>>

S_sp500 == <<" ", "5", "0", "0">>

\* a timestamp
S_ts == <<"2", "0", "2", "6", "-", "0", "1", "-", "0", "1", "T", "0", "0", ":", "0", "0", ":", "0", "0">>

\* a group id
S_grp == <<"g", "r", "p", "1">>

\* str(0.5)
S_half == <<"0", ".", "5">>

\* a key no extractor looks at
K_note == <<"n", "o", "t", "e">>

N_a_json == <<"a", ".", "j", "s", "o", "n">>

N_B_JSON == <<"B", ".", "J", "S", "O", "N">>

N_dash_md == <<"d", "a", "s", "h", ".", "m", "d">>

N_notes_md == <<"n", "o", "t", "e", "s", ".", "m", "d">>

N_x_txt == <<"x", ".", "t", "x", "t">>

\* markdown with the marker word and one id
T_dash1 == <<"D", "a", "s", "h", "b", "o", "a", "r", "d", ":", " ", "j", "o", "b", " ", "d", "0", "a", "1", "b", "2", "c", "3", "d", "4", "e", "5">>

\* markdown with the marker word and two ids
T_dash2 == <<"#", " ", "d", "a", "s", "h", "b", "o", "a", "r", "d", "\n", "C", "0", "F", "F", "E", "E", "0", "0", "1", "1", "2", "2", "3", "3", " ", "d", "0", "a", "1", "b", "2", "c", "3", "d", "4", "e", "5">>

\* markdown with an id and no marker word
T_plain == <<"j", "o", "b", " ", "d", "0", "a", "1", "b", "2", "c", "3", "d", "4", "e", "5">>

\* markdown with the marker word and no id
T_marker == <<"I", "B", "M", " ", "Q", "u", "a", "n", "t", "u", "m", " ", "D", "a", "s", "h", "b", "o", "a", "r", "d">>

\* text that is not valid JSON
T_bad == <<"{", "o", "o", "p", "s">>

\* try_git_commit without a repository
C_unknown == <<"u", "n", "k", "n", "o", "w", "n">>

\* a commit id
C_head == <<"a", "1", "b", "2", "c", "3", "d">>

\* a clock reading
U_t1 == <<"2", "0", "2", "6", "-", "0", "1", "-", "0", "1", "T", "0", "0", ":", "0", "0">>

\* a later clock reading
U_t2 == <<"2", "0", "2", "6", "-", "0", "1", "-", "0", "2", "T", "0", "0", ":", "0", "0">>

\* at most this many files in the evidence directory
MaxFiles == 2

\* at most this many items in a generated list
MaxItems == 2

\* all sequences over S of length 0..n
SeqsUpTo(S, n) == UNION {[1..k -> S] : k \in 0..n}

Obj1(k, v) == PyDict(<< <<k, v>> >>)

Obj2(k1, v1, k2, v2) == PyDict(<< <<k1, v1>>, <<k2, v2>> >>)

ScalarPool ==
    {PyStr(s) : s \in {S_id1, S_ID1, S_id2, S_short, S_tiny, S_x7, S_padded, S_dashed,
                       S_long, S_under, S_url, S_other, S_ibm, S_ibm_sp, S_sim, S_blank,
                       S_empty, S_0, S_500, S_007, S_neg, S_sp500, S_ts, S_grp}}
    \cup {PyInt(0), PyInt(500), PyInt(-3), PyBool(TRUE), PyBool(FALSE), None, PyFloat(S_half)}

TopKeyPool ==
    {K_job_id, K_jobId, K_runtime_job_id, K_job_ids, K_jobIds, K_jobs, K_ibm_job_ids,
     K_execution_metadata, K_proof, K_ibm, K_backend, K_hardware, K_summary, K_shots,
     K_runs, K_results, K_executions, K_timestamp, K_created_utc, K_created, K_time,
     K_date, K_metadata, K_evidence_group_id, K_root, K_note, S_id1}

ShotPool ==
    {PyInt(500), PyInt(7), PyInt(0), PyInt(-3), PyBool(TRUE), PyStr(S_500), PyStr(S_0),
     PyStr(S_sp500), PyStr(S_sup2), None}

IdItemPool == {PyStr(S_id1), PyStr(S_ID1), PyStr(S_tiny), PyInt(7)}

RunItemPool ==
    {Obj1(K_shots, PyInt(500)), Obj1(K_shots, PyInt(7)), Obj1(K_shots, PyStr(S_500)),
     Obj1(K_note, PyInt(1)), PyInt(3)}

\* the documents of the single-file runs
DocPool ==
    \* one key, one scalar
    {Obj1(k, v) : k \in TopKeyPool, v \in ScalarPool}
    \* a list under a key that may hold ids or runs
    \cup {Obj1(k, PyList(items)) :
            k \in {K_job_ids, K_jobIds, K_jobs, K_ibm_job_ids, K_job_id},
            items \in SeqsUpTo(IdItemPool, MaxItems)}
    \cup {Obj1(k, PyList(items)) :
            k \in {K_runs, K_results, K_jobs, K_executions, K_shots},
            items \in SeqsUpTo(RunItemPool, MaxItems)}
    \* a value at a shots location that is no count
    \cup {Obj1(K_shots, PyStr(S_5sup2)),
          Obj2(K_shots, PyList(<<PyInt(500)>>), K_summary, Obj1(K_shots, PyInt(7))),
          Obj2(K_summary, PyInt(3), K_ibm, Obj1(K_shots, PyStr(S_500)))}
    \* one level of nesting
    \cup {Obj1(p, Obj1(k, v)) :
            p \in {K_execution_metadata, K_ibm, K_summary, K_hardware, K_metadata},
            k \in {K_job_id, K_jobId, K_backend, K_shots, K_timestamp},
            v \in ScalarPool}
    \cup {Obj1(K_proof, Obj1(K_execution_metadata, Obj1(k, v))) :
            k \in {K_job_id, K_jobId, K_backend, K_shots}, v \in ScalarPool}
    \* two places for the shot count, in both key orders
    \cup {Obj2(K_shots, v1, K_runs, PyList(<<Obj1(K_shots, v2)>>)) :
            v1 \in ShotPool, v2 \in ShotPool}
    \cup {Obj2(K_ibm, Obj1(K_shots, v1), K_summary, Obj1(K_shots, v2)) :
            v1 \in ShotPool, v2 \in ShotPool}
    \cup {Obj2(k1, PyList(<<Obj1(K_shots, v1)>>), k2, PyList(<<Obj1(K_shots, v2)>>)) :
            k1 \in {K_executions}, k2 \in {K_runs, K_results},
            v1 \in ShotPool, v2 \in ShotPool}
    \* two places for the backend, the timestamp, the group id, the job id
    \cup {Obj2(K_note, PyStr(S_ibm), k, v) :
            k \in {K_backend, K_evidence_group_id, K_timestamp}, v \in ScalarPool}
    \cup {Obj2(K_summary, Obj1(K_backend, v1), K_hardware, Obj1(K_backend, v2)) :
            v1 \in {PyStr(S_sim), PyStr(S_blank), PyInt(7)},
            v2 \in {PyStr(S_ibm_sp), PyStr(S_empty), None}}
    \cup {Obj2(K_date, v1, K_timestamp, v2) :
            v1 \in {PyStr(S_ts), PyStr(S_blank), PyInt(7)},
            v2 \in {PyStr(S_padded), PyStr(S_empty), None}}
    \cup {Obj2(K_note, PyStr(s1), K_job_id, PyStr(s2)) :
            s1 \in {S_id2, S_ID1, S_url}, s2 \in {S_id1, S_padded, S_tiny, S_x7}}

\* what json.loads returns on the single file: a document, or any other value
RootPool == DocPool \cup {PyDict(<<>>), PyList(<<>>), PyList(<<PyStr(S_id1)>>)} \cup ScalarPool

\* the single-file directories: a .json file that parses, one that does not,
\* and a markdown file
SingleFilePool ==
    {[n \in {N_a_json} |-> JsonFile(d)] : d \in RootPool}
    \cup {[n \in {name} |-> TextFile(T_bad)] : name \in {N_a_json, N_B_JSON}}
    \cup {[n \in {N_notes_md} |-> TextFile(s)] : s \in {T_dash1, T_marker}}

\* the JSON documents of the directory runs
DirDocPool ==
    {PyDict(<<>>),
     PyDict(<< <<K_backend, PyStr(S_ibm)>>, <<K_shots, PyInt(500)>>,
               <<K_timestamp, PyStr(S_ts)>>, <<K_job_id, PyStr(S_ID1)>> >>),
     Obj2(K_job_ids, PyList(<<PyStr(S_id2)>>), K_evidence_group_id, PyStr(S_grp))}

JsonContentPool == {JsonFile(d) : d \in DirDocPool} \cup {TextFile(T_bad)}

MdContentPool == {TextFile(s) : s \in {T_dash1, T_dash2, T_plain}}

NamePool == {N_a_json, N_B_JSON, N_dash_md, N_notes_md, N_x_txt}

ContentsFor(name) ==
    IF lower(suffix(name)) = DOT_JSON THEN JsonContentPool
    ELSE IF lower(suffix(name)) = DOT_MD THEN MdContentPool
    ELSE {TextFile(T_plain)}

\* every directory of at most MaxFiles files
DirPool ==
    UNION {{d \in [names -> JsonContentPool \cup MdContentPool] :
              \A n \in names : d[n] \in ContentsFor(n)} :
           names \in {ns \in SUBSET NamePool : Cardinality(ns) <= MaxFiles}}

\* the directories of the runs in place: one .json file, one .md file, both
\* or none
RerunPool == {d \in DirPool : DOMAIN d \subseteq {N_a_json, N_dash_md}}

Commits == {PyStr(C_unknown), PyStr(C_head)}

\* the readings of the clock, in time order
Clocks == <<PyStr(U_t1), PyStr(U_t2)>>

(***************************************************************************)
(* main                                                                    *)
(***************************************************************************)
VARIABLES
    fs,             \* base_dir: file name -> content
    dir_exists,     \* base_dir.exists()
    args,           \* the parsed command line
    pc,             \* where main is
    git_commit,     \* what try_git_commit returned
    generated_utc,  \* the clock reading of line 393
    candidates,     \* the sorted list of line 397
    entries,        \* the records built so far
    manifest,       \* the manifest dict, None before line 413
    findings,       \* what write_warnings_md found, None before
    rc,             \* main's return value, None while running
    run,            \* 1 in the first run of main, 2 in the second
    fs0,            \* the directory as it was before the first run
    outputs         \* per finished assembly: its inputs and manifest.json

vars == <<fs, dir_exists, args, pc, git_commit, generated_utc, candidates, entries,
          manifest, findings, rc, run, fs0, outputs>>

\* the orders in which base_dir.rglob("*") may yield the .json and .md files
Listings(dir) ==
    LET found == {n \in DOMAIN dir : lower(suffix(n)) \in {DOT_JSON, DOT_MD}}
    IN  {l \in [1..Cardinality(found) -> found] : Range(l) = found}

\* variant: the listing is taken in the order rglob yields it
sorted_AsListed(listing) == listing

\* sorted(paths): Path order, which for flat names is str order
sorted(listing) == SortedBy(listing, listing)

\* lines 402-408: the parsed document, a non-dict wrapped under _root, or
\* None for a file that is no .json file or does not parse
load_document(name, content) ==
    IF lower(suffix(name)) = DOT_JSON /\ content.t = "json"
    THEN (IF IsDict(content.doc) THEN content.doc ELSE Obj1(K_root, content.doc))
    ELSE None

\* line 393: the first run of main reads the first reading of the clock, a
\* later run that one or a later one
utcnow(nth) == {Clocks[i] : i \in {j \in DOMAIN Clocks : nth > 1 \/ j = 1}}

make_manifest(now, commit, sets) ==
    PyDict(<< <<K_schema_version, PyInt(SCHEMA_VERSION)>>,
              <<K_generated_utc, now>>,
              <<K_git_commit, commit>>,
              <<K_evidence_sets, PyList(sets)>> >>)

InitCommon ==
    /\ fs = fs0
    /\ pc = "start"
    /\ git_commit = None
    /\ generated_utc = None
    /\ candidates = <<>>
    /\ entries = <<>>
    /\ manifest = None
    /\ findings = None
    /\ rc = None
    /\ run = 1
    /\ outputs = <<>>

\* a directory of several files, or no directory at all
Init ==
    /\ fs0 \in DirPool
    /\ dir_exists \in BOOLEAN
    /\ dir_exists = FALSE => fs0 = <<>>
    /\ args \in {[write_index |-> FALSE, no_warnings |-> FALSE],
                 [write_index |-> TRUE, no_warnings |-> TRUE]}
    /\ InitCommon

\* a directory that is run over twice
InitRerun ==
    /\ fs0 \in RerunPool
    /\ dir_exists = TRUE
    /\ args \in {[write_index |-> FALSE, no_warnings |-> FALSE],
                 [write_index |-> TRUE, no_warnings |-> FALSE],
                 [write_index |-> TRUE, no_warnings |-> TRUE]}
    /\ InitCommon

\* a directory holding one file
InitDoc ==
    /\ fs0 \in SingleFilePool
    /\ dir_exists = TRUE
    /\ args = [write_index |-> TRUE, no_warnings |-> FALSE]
    /\ InitCommon

\* lines 379-399: read the revision and the clock, list and sort the files
Start ==
    /\ pc = "start"
    /\ IF ~dir_exists
       THEN /\ pc' = "done"
            /\ rc' = PyInt(2)
            /\ UNCHANGED <<git_commit, generated_utc, candidates>>
       ELSE /\ \E commit \in Commits, now \in utcnow(run), listing \in Listings(fs) :
                 /\ git_commit' = commit
                 /\ generated_utc' = now
                 /\ candidates' = sorted(listing)
            /\ pc' = "build"
            /\ rc' = rc
    /\ UNCHANGED <<fs, dir_exists, args, entries, manifest, findings, run, fs0, outputs>>

\* variant: a parse failure ends main instead of being caught
BuildEntry_Propagates ==
    /\ pc = "build"
    /\ Len(entries) < Len(candidates)
    /\ LET p == candidates[Len(entries) + 1]
           obj == load_document(p, fs[p])
       IN  IF lower(suffix(p)) = DOT_JSON /\ fs[p].t = "text"
           THEN /\ pc' = "done"
                /\ rc' = PyInt(1)
                /\ entries' = entries
           ELSE /\ entries' = Append(entries, build_entry(p, fs[p], obj, git_commit))
                /\ UNCHANGED <<pc, rc>>
    /\ UNCHANGED <<fs, dir_exists, args, git_commit, generated_utc, candidates,
                   manifest, findings, run, fs0, outputs>>

\* lines 401-411: one turn of the loop over the candidates; an exception
\* that leaves build_entry is caught nowhere and ends the process with 1
BuildEntry ==
    /\ pc = "build"
    /\ Len(entries) < Len(candidates)
    /\ LET p == candidates[Len(entries) + 1]
           obj == load_document(p, fs[p])
           entry == build_entry(p, fs[p], obj, git_commit)
       IN  IF entry = ValueError
           THEN /\ pc' = "done"
                /\ rc' = PyInt(1)
                /\ entries' = entries
           ELSE /\ entries' = Append(entries, entry)
                /\ UNCHANGED <<pc, rc>>
    /\ UNCHANGED <<fs, dir_exists, args, git_commit, generated_utc, candidates,
                   manifest, findings, run, fs0, outputs>>

\* lines 413-421: assemble the manifest, write manifest.json and SHA256SUMS
WriteManifest ==
    /\ pc = "build"
    /\ Len(entries) = Len(candidates)
    /\ LET mf == make_manifest(generated_utc, git_commit, entries)
           text == JsonDump(SortKeys(mf))
       IN  /\ manifest' = mf
           /\ fs' = WriteFile(WriteFile(fs, MANIFEST_JSON, text),
                              SHA256SUMS, ReportFile("SHA256SUMS", Sha256Sums(entries)))
           /\ outputs' = Append(outputs, [files |-> fs, git_commit |-> git_commit,
                                          generated_utc |-> generated_utc,
                                          manifest_json |-> text])
    /\ pc' = "index"
    /\ UNCHANGED <<dir_exists, args, git_commit, generated_utc, candidates, entries,
                   findings, rc, run, fs0>>

\* lines 422-423: INDEX.md, if asked for
WriteIndex ==
    /\ pc = "index"
    /\ fs' = IF args.write_index
             THEN WriteFile(fs, INDEX_MD,
                            ReportFile("INDEX", [generated_utc |-> generated_utc,
                                                 git_commit |-> git_commit,
                                                 files |-> SortedByFile(entries)]))
             ELSE fs
    /\ pc' = "warnings"
    /\ UNCHANGED <<dir_exists, args, git_commit, generated_utc, candidates, entries,
                   manifest, findings, rc, run, fs0, outputs>>

\* variant: the checker files its findings in the manifest it was given
WriteWarnings_Annotates ==
    /\ pc = "warnings"
    /\ IF args.no_warnings
       THEN UNCHANGED <<fs, findings, manifest>>
       ELSE LET found == Findings(fs, manifest)
            IN  /\ findings' = found
                /\ manifest' = PyDict(manifest.kv \o << <<K_job_ids,
                                   PyList([i \in DOMAIN found.missing_in_json |->
                                              PyStr(found.missing_in_json[i])])>> >>)
                /\ fs' = WriteFile(fs, WARNINGS_MD,
                                   ReportFile("WARNINGS", [generated_utc |-> generated_utc,
                                                           git_commit |-> git_commit,
                                                           findings |-> found]))
    /\ pc' = "done"
    /\ rc' = PyInt(0)
    /\ UNCHANGED <<dir_exists, args, git_commit, generated_utc, candidates, entries,
                   run, fs0, outputs>>

\* lines 424-433: WARNINGS.md, unless --no-warnings; return 0
WriteWarnings ==
    /\ pc = "warnings"
    /\ IF args.no_warnings
       THEN UNCHANGED <<fs, findings>>
       ELSE LET found == Findings(fs, manifest)
            IN  /\ findings' = found
                /\ fs' = WriteFile(fs, WARNINGS_MD,
                                   ReportFile("WARNINGS", [generated_utc |-> generated_utc,
                                                           git_commit |-> git_commit,
                                                           findings |-> found]))
    /\ pc' = "done"
    /\ rc' = PyInt(0)
    /\ UNCHANGED <<dir_exists, args, git_commit, generated_utc, candidates, entries,
                   manifest, run, fs0, outputs>>

\* main is run once more over the file set the first run was given
RunAgain ==
    /\ pc = "done"
    /\ run = 1
    /\ run' = 2
    /\ fs' = fs0
    /\ pc' = "start"
    /\ git_commit' = None
    /\ generated_utc' = None
    /\ candidates' = <<>>
    /\ entries' = <<>>
    /\ manifest' = None
    /\ findings' = None
    /\ rc' = None
    /\ UNCHANGED <<dir_exists, args, fs0, outputs>>

\* main is run once more over the directory as the first run left it
RunInPlace ==
    /\ pc = "done"
    /\ run = 1
    /\ run' = 2
    /\ pc' = "start"
    /\ git_commit' = None
    /\ generated_utc' = None
    /\ candidates' = <<>>
    /\ entries' = <<>>
    /\ manifest' = None
    /\ findings' = None
    /\ rc' = None
    /\ UNCHANGED <<fs, dir_exists, args, fs0, outputs>>

Main == Start \/ BuildEntry \/ WriteManifest \/ WriteIndex \/ WriteWarnings

Next == Main \/ RunAgain

Spec == Init /\ [][Next]_vars

\* one run of main over one file
SpecDoc == InitDoc /\ [][Main]_vars

\* two runs of main in a row over one directory
SpecRerun == InitRerun /\ [][Main \/ RunInPlace]_vars

(***************************************************************************)
(* Properties                                                              *)
(***************************************************************************)
\* the file record i was built from, and what the loop parsed it to
SourceName(i) == candidates[i]

SourceContent(i) == fs0[candidates[i]]

SourceDoc(i) == load_document(SourceName(i), SourceContent(i))

\* the job ids of a record, as strings; none if the field is absent
JobIdsOf(e) ==
    IF HasKey(e, K_job_ids)
    THEN [i \in DOMAIN Get(e, K_job_ids).items |-> Get(e, K_job_ids).items[i].s]
    ELSE <<>>

OPTIONAL_KEYS == {K_backend, K_shots, K_timestamp, K_job_ids}

\* the names main enumerates: the files with suffix .json or .md, any case
Enumerated(dir) == {n \in DOMAIN dir : lower(suffix(n)) \in {DOT_JSON, DOT_MD}}

\* C1: every job id of every record is made of 10 to 40 letters and digits,
\* has at least 12 characters and, case-folded, starts with one of the
\* prefixes of LIKELY_JOB_PREFIX, whether it came from a structured key or
\* from the text scan.
C1_JobIdsWellFormed ==
    \A i \in DOMAIN entries :
        \A k \in DOMAIN JobIdsOf(entries[i]) :
            LET id == JobIdsOf(entries[i])[k]
            IN  /\ \A c \in Range(id) : c \in TokenChars
                /\ Len(id) >= TOKEN_MIN /\ Len(id) <= TOKEN_MAX
                /\ Len(id) >= MIN_JOB_ID_LEN
                /\ startswith_any(lower(id), LIKELY_JOB_PREFIX)

\* a document that is one structured job-id key holding one string
IsSingleJobIdDoc(content) ==
    /\ content.t = "json"
    /\ IsDict(content.doc)
    /\ Len(content.doc.kv) = 1
    /\ content.doc.kv[1][1] \in Range(JOB_ID_KEYS)
    /\ IsStr(content.doc.kv[1][2])

\* C2: a string s under a structured job-id key yields an identifier exactly
\* when the text-scan filter (prefix and length >= 12) accepts s.
C2_SharedFilter ==
    \A i \in DOMAIN entries :
        IsSingleJobIdDoc(SourceContent(i)) =>
            LET s == SourceContent(i).doc.kv[1][2].s
            IN  (JobIdsOf(entries[i]) # <<>>) <=> TextFilter(lower(strip(s)))

\* C3: two assemblies of the same file set with the same revision and the
\* same generation timestamp write the same manifest.json.
C3_Deterministic ==
    \A i, j \in DOMAIN outputs :
        (/\ outputs[i].files = outputs[j].files
         /\ outputs[i].git_commit = outputs[j].git_commit
         /\ outputs[i].generated_utc = outputs[j].generated_utc)
        => outputs[i].manifest_json = outputs[j].manifest_json

\* two assemblies of one file set of two records, revision and timestamp equal
C3_Witness ==
    /\ Len(outputs) = 2
    /\ outputs[1].files = outputs[2].files
    /\ outputs[1].git_commit = outputs[2].git_commit
    /\ outputs[1].generated_utc = outputs[2].generated_utc
    /\ Len(Get(outputs[2].manifest_json.doc, K_evidence_sets).items) = 2

\* the ids the text scan finds in the .md files that hold the marker word
DashboardMentions ==
    UNION {Range(extract_job_ids_from_text(fs0[n].text)) :
             n \in {m \in Enumerated(fs0) :
                      /\ lower(suffix(m)) = DOT_MD
                      /\ Contains(lower(fs0[m].text), DASHBOARD)}}

\* the job ids of all .json records of the manifest, case-folded
RecordedJobIds ==
    UNION {{lower(JobIdsOf(entries[i])[k]) : k \in DOMAIN JobIdsOf(entries[i])} :
             i \in {j \in DOMAIN entries : lower(suffix(SourceName(j))) = DOT_JSON}}

\* C4: the mismatch list is the set difference: the ids of the dashboard
\* markdowns minus the union of the job ids of all .json records.
C4_MismatchIsSetDifference ==
    findings # None =>
        /\ Range(findings.missing_in_json) = DashboardMentions \ RecordedJobIds
        /\ Len(findings.missing_in_json) = Cardinality(DashboardMentions \ RecordedJobIds)

\* the example of the claim, and an id cleared by a .json record
C4_Witness ==
    /\ findings # None
    /\ \/ /\ fs0 = [n \in {N_a_json, N_dash_md} |->
                      IF n = N_a_json THEN JsonFile(PyDict(<<>>)) ELSE TextFile(T_dash1)]
          /\ findings.missing_in_json = <<S_id1>>
       \/ /\ DashboardMentions \cap RecordedJobIds # {}
          /\ findings.missing_in_json # <<>>

\* C5: a .json record is in a field's missing list exactly when it lacks the
\* field, for each of the four fields; other records are in no list; and the
\* record of the document {} lacks all four.
C5_MissingFieldLint ==
    /\ findings # None =>
        \A i \in DOMAIN entries :
            LET e == entries[i]
                json == lower(suffix(SourceName(i))) = DOT_JSON
            IN  /\ (EntryFile(e) \in Range(findings.missing_backend))
                        <=> (json /\ ~HasKey(e, K_backend))
                /\ (EntryFile(e) \in Range(findings.missing_shots))
                        <=> (json /\ ~HasKey(e, K_shots))
                /\ (EntryFile(e) \in Range(findings.missing_timestamp))
                        <=> (json /\ ~HasKey(e, K_timestamp))
                /\ (EntryFile(e) \in Range(findings.missing_job_ids))
                        <=> (json /\ ~HasKey(e, K_job_ids))
    /\ \A i \in DOMAIN entries :
        SourceContent(i) = JsonFile(PyDict(<<>>)) =>
            \A k \in OPTIONAL_KEYS : ~HasKey(entries[i], k)

\* the record of {} is in all four lists, beside a markdown record in none
C5_Witness ==
    /\ findings # None
    /\ \E i, j \in DOMAIN entries :
        /\ SourceContent(i) = JsonFile(PyDict(<<>>))
        /\ lower(suffix(SourceName(i))) = DOT_JSON
        /\ \A l \in {findings.missing_backend, findings.missing_shots,
                     findings.missing_timestamp, findings.missing_job_ids} :
              EntryFile(entries[i]) \in Range(l)
        /\ lower(suffix(SourceName(j))) = DOT_MD

\* a .json file whose bytes json.loads rejects
IsUnparseable(name, content) == lower(suffix(name)) = DOT_JSON /\ content.t = "text"

\* C6: a file that is not valid JSON still gets a record with path, digest,
\* size, revision and the base name as grouping key, and no optional field;
\* the run goes on and ends with one record per enumerated file.
C6_MalformedInput ==
    /\ \A i \in DOMAIN entries :
        IsUnparseable(SourceName(i), SourceContent(i)) =>
            entries[i] = PyDict(<< <<K_file, PyStr(SourceName(i))>>,
                                   <<K_sha256, sha256_file(SourceContent(i))>>,
                                   <<K_size_bytes, PyInt(Len(SourceContent(i).text))>>,
                                   <<K_git_commit, git_commit>>,
                                   <<K_evidence_group_id, PyStr(stem(SourceName(i)))>> >>)
    /\ (pc = "done" /\ dir_exists) =>
        /\ rc = PyInt(0)
        /\ manifest # None
        /\ LET sets == Get(manifest, K_evidence_sets).items
           IN  /\ Len(sets) = Cardinality(Enumerated(fs0))
               /\ \A n \in Enumerated(fs0) :
                    Cardinality({i \in DOMAIN sets : EntryFile(sets[i]) = n}) = 1

\* a finished run over an unparseable file and one more file
C6_Witness ==
    /\ pc = "done"
    /\ rc = PyInt(0)
    /\ Len(entries) = 2
    /\ \E i \in DOMAIN entries : IsUnparseable(SourceName(i), SourceContent(i))
    /\ \E i \in DOMAIN entries : HasKey(entries[i], K_backend)

\* the document declares a non-blank string as its group id
DeclaresGroup(content) ==
    /\ content.t = "json"
    /\ IsDict(content.doc)
    /\ \E k \in DOMAIN content.doc.kv :
        /\ content.doc.kv[k][1] = K_evidence_group_id
        /\ IsStr(content.doc.kv[k][2])
        /\ \E c \in Range(content.doc.kv[k][2].s) : c \notin Whitespace

\* C7: every record has a grouping key: the declared evidence_group_id,
\* stripped, if the document is a mapping that declares a non-blank string,
\* and the file's base name without extension in every other case.
C7_GroupingKey ==
    \A i \in DOMAIN entries :
        /\ HasKey(entries[i], K_evidence_group_id)
        /\ IF lower(suffix(SourceName(i))) = DOT_JSON /\ DeclaresGroup(SourceContent(i))
           THEN \E k \in DOMAIN SourceContent(i).doc.kv :
                   /\ SourceContent(i).doc.kv[k][1] = K_evidence_group_id
                   /\ Get(entries[i], K_evidence_group_id)
                        = PyStr(strip(SourceContent(i).doc.kv[k][2].s))
           ELSE Get(entries[i], K_evidence_group_id) = PyStr(stem(SourceName(i)))

\* a declared key was taken, stripped
C7_Witness ==
    \E i \in DOMAIN entries :
        /\ DeclaresGroup(SourceContent(i))
        /\ Get(entries[i], K_evidence_group_id) = PyStr(S_id1)
        /\ Get(SourceContent(i).doc, K_evidence_group_id) = PyStr(S_padded)

\* C8: whenever a record has a shots field, its value is an integer greater
\* than zero.
C8_ShotsPositive ==
    \A i \in DOMAIN entries :
        HasKey(entries[i], K_shots) =>
            /\ Get(entries[i], K_shots).t = "int"
            /\ Get(entries[i], K_shots).n > 0

\* a value that counts as a shot count at a candidate location: a native
\* integer above zero, or a string of decimal digits
HoldsShotCount(v) ==
    \/ v.t \in {"int", "bool"} /\ IntVal(v) >= 1
    \/ v.t = "str" /\ v.s # <<>> /\ \A c \in Range(v.s) : c \in Range(Digits)

\* the number such a value stands for
ShotCountOf(v) == IF v.t = "str" THEN int(v.s) ELSE IntVal(v)

\* the shots field of item n of the list under the k-th of runs, results,
\* jobs, executions; None where there is no such list, item or field
ItemShots(obj, k, n) ==
    LET l == Get(obj, RUN_LIST_KEYS[k])
    IN  IF IsList(l) /\ n \in DOMAIN l.items /\ IsDict(l.items[n])
        THEN Get(l.items[n], K_shots)
        ELSE None

\* list positions <<k, n>>, ordered by key first and place in the list second
ItemPositions(obj) ==
    UNION {{<<k, n>> : n \in {m \in (IF IsList(Get(obj, RUN_LIST_KEYS[k]))
                                       THEN DOMAIN Get(obj, RUN_LIST_KEYS[k]).items
                                       ELSE {}) :
                                 /\ ItemShots(obj, k, m).t \in {"int", "bool"}
                                 /\ IntVal(ItemShots(obj, k, m)) >= 1}} :
           k \in DOMAIN RUN_LIST_KEYS}

PositionBefore(p, q) == p[1] < q[1] \/ (p[1] = q[1] /\ p[2] < q[2])

C10_PresentOnlyWhenFound ==
    \A i \in DOMAIN entries :
        LET e == entries[i]
            obj == SourceDoc(i)
        IN  /\ HasKey(e, K_backend) =>
                IsStr(Get(e, K_backend)) /\ Get(e, K_backend).s # <<>>
            /\ HasKey(e, K_timestamp) =>
                IsStr(Get(e, K_timestamp)) /\ Get(e, K_timestamp).s # <<>>
            /\ HasKey(e, K_job_ids) =>
                IsList(Get(e, K_job_ids)) /\ Get(e, K_job_ids).items # <<>>
            /\ HasKey(e, K_shots) => Get(e, K_shots) # None
            /\ HasKey(e, K_backend) <=> extract_backend(obj) # None
            /\ HasKey(e, K_timestamp) <=> extract_timestamp(obj) # None
            /\ HasKey(e, K_shots) <=> extract_shots(obj) # None
            /\ HasKey(e, K_job_ids) <=> extract_job_ids(obj) # <<>>

\* a record with some optional fields and without others
C10_Witness ==
    \E i \in DOMAIN entries :
        /\ HasKey(entries[i], K_job_ids)
        /\ ~HasKey(entries[i], K_backend)
        /\ ~HasKey(entries[i], K_shots)

\* C11: the step that writes WARNINGS.md leaves the manifest as it was
\* (schema version, timestamp, revision, every record and their order), as
\* well as manifest.json on disk, and ends the run with 0; its findings exist
\* for every manifest, and for one without records all five lists are empty.
C11_CheckerLeavesManifest ==
    [][pc = "warnings" =>
         /\ manifest' = manifest
         /\ entries' = entries
         /\ fs'[MANIFEST_JSON] = fs[MANIFEST_JSON]
         /\ manifest' = make_manifest(generated_utc, git_commit, entries)
         /\ rc' = PyInt(0)
         /\ ~args.no_warnings =>
              /\ findings' # None
              /\ Get(manifest, K_evidence_sets).items = <<>> =>
                   findings' = [missing_in_json |-> <<>>, missing_backend |-> <<>>,
                                missing_shots |-> <<>>, missing_timestamp |-> <<>>,
                                missing_job_ids |-> <<>>]]_vars

\* the checker has run on a manifest without records
C11_Witness ==
    /\ pc = "done"
    /\ rc = PyInt(0)
    /\ findings # None
    /\ manifest # None
    /\ Get(manifest, K_evidence_sets).items = <<>>
    /\ findings.missing_in_json = <<>>

\* the candidates of a document in the order the claim gives them: direct
\* structured keys, nested key paths, hits of the text scan; each stripped
\* and lower-cased
JobIdCandidates(obj) ==
    LET raw == DirectJobIds(obj) \o NestedJobIds(obj)
                  \o extract_job_ids_from_text(AllText(obj))
    IN  [k \in DOMAIN raw |-> lower(strip(raw[k]))]

\* the place of the first occurrence of x in seq
FirstPlace(seq, x) == CHOOSE k \in DOMAIN seq : seq[k] = x /\ \A l \in 1..(k - 1) : seq[l] # x

\* C12: the job ids of a record are lower-case and without duplicates, each
\* is a candidate of the document, every candidate with a configured prefix
\* is among them, and they stand in the order of their first occurrence among
\* the candidates: direct keys, then nested paths, then text hits.
C12_NormalizedInOrder ==
    \A i \in DOMAIN entries :
        LET obj == SourceDoc(i)
            ids == JobIdsOf(entries[i])
            cand == JobIdCandidates(obj)
        IN  Truthy(obj) =>
              /\ \A k \in DOMAIN ids : ids[k] = lower(ids[k]) /\ ids[k] = strip(ids[k])
              /\ \A k, l \in DOMAIN ids : k # l => ids[k] # ids[l]
              /\ \A k \in DOMAIN ids : ids[k] \in Range(cand)
              /\ \A k \in DOMAIN cand :
                    (cand[k] # <<>> /\ startswith_any(cand[k], LIKELY_JOB_PREFIX))
                        => cand[k] \in Range(ids)
              /\ \A k, l \in DOMAIN ids :
                    k < l => FirstPlace(cand, ids[k]) < FirstPlace(cand, ids[l])

\* a structured id listed before a text hit that comes earlier in the
\* document, and two spellings of one id collapsed
C12_Witness ==
    \E i \in DOMAIN entries :
        \/ /\ SourceContent(i) = JsonFile(Obj2(K_note, PyStr(S_id2), K_job_id, PyStr(S_id1)))
           /\ JobIdsOf(entries[i]) = <<S_id1, S_id2>>
        \/ /\ SourceContent(i) = JsonFile(Obj2(K_note, PyStr(S_ID1), K_job_id, PyStr(S_padded)))
           /\ JobIdsOf(entries[i]) = <<S_id1>>

\* a value that is valid where a string is expected: a non-blank string
ValidText(v) == v.t = "str" /\ \E c \in Range(v.s) : c \notin Whitespace

\* the least element of a non-empty set of numbers
Least(S) == CHOOSE c \in S : \A d \in S : c <= d

\* no run ends with an error: every candidate file got its record
NoErrorRaised == pc = "done" => (rc = PyInt(0) /\ Len(entries) = Len(candidates))

\* the text field under key is the stripped value of the first of the
\* locations that holds a non-blank string
FirstValidText(e, key, obj, paths) ==
    LET at == [c \in DOMAIN paths |-> deep_get(obj, paths[c])]
        valid == {c \in DOMAIN paths : ValidText(at[c])}
    IN  IF valid # {}
        THEN HasKey(e, key) /\ Get(e, key) = PyStr(strip(at[Least(valid)].s))
        ELSE key = K_timestamp => ~HasKey(e, key)

\* the shots field is the count at the first location that holds one
FirstValidCount(e, obj) ==
    LET at == [c \in DOMAIN SHOTS_PATHS |-> deep_get(obj, SHOTS_PATHS[c])]
        held == {c \in DOMAIN SHOTS_PATHS : HoldsShotCount(at[c])}
    IN  IF held # {}
        THEN HasKey(e, K_shots) /\ IntVal(Get(e, K_shots)) = ShotCountOf(at[Least(held)])
        ELSE ItemPositions(obj) = {} => ~HasKey(e, K_shots)

\* every extractor passes over the locations that hold no valid value
SearchContinues ==
    \A i \in DOMAIN entries :
        LET obj == SourceDoc(i)
            e == entries[i]
        IN  Truthy(obj) =>
              /\ FirstValidText(e, K_backend, obj, BACKEND_PATHS)
              /\ FirstValidText(e, K_timestamp, obj,
                                [k \in DOMAIN TIMESTAMP_KEYS |-> <<TIMESTAMP_KEYS[k]>>]
                                    \o TIMESTAMP_PATHS)
              /\ FirstValidCount(e, obj)
              /\ Get(e, K_evidence_group_id)
                    = IF ValidText(Get(obj, K_evidence_group_id))
                      THEN PyStr(strip(Get(obj, K_evidence_group_id).s))
                      ELSE PyStr(stem(SourceName(i)))

\* C13: a value of the wrong type at a candidate location of the backend,
\* shots, timestamp or grouping-key extractor is passed over as if absent: no
\* error is raised, the first valid value at a later location is returned,
\* and without any valid value nothing is found.
C13_WrongTypeIsAbsent == NoErrorRaised /\ SearchContinues

\* the leaf values of a document in depth-first order: the values that are
\* neither mappings nor lists; keys are no leaves
RECURSIVE LeafValues(_)
LeafValues(v) ==
    IF IsDict(v) THEN Flatten([i \in DOMAIN v.kv |-> LeafValues(v.kv[i][2])])
    ELSE IF IsList(v) THEN Flatten([i \in DOMAIN v.items |-> LeafValues(v.items[i])])
    ELSE <<v>>

\* no candidate location of the backend holds a non-blank string
NoBackendLocation(obj) ==
    \A c \in DOMAIN BACKEND_PATHS : ~ValidText(deep_get(obj, BACKEND_PATHS[c]))

\* the backend the fallback scan is to give: the first leaf string that
\* begins with ibm_, None for none
FirstIbmLeaf(obj) ==
    LET leaves == LeafValues(obj)
        hits == {k \in DOMAIN leaves :
                    leaves[k].t = "str" /\ startswith(leaves[k].s, IBM_PREFIX)}
    IN  IF hits = {} THEN None ELSE leaves[Least(hits)]

\* C14: with no non-blank string at a candidate location, the backend of a
\* record is the first leaf string of the document, in depth-first order,
\* that begins with ibm_, and there is no backend when no leaf string does.
C14_BackendFallback ==
    \A i \in DOMAIN entries :
        LET obj == SourceDoc(i)
            e == entries[i]
        IN  (Truthy(obj) /\ NoBackendLocation(obj)) =>
                IF FirstIbmLeaf(obj) = None
                THEN ~HasKey(e, K_backend)
                ELSE HasKey(e, K_backend) /\ Get(e, K_backend) = FirstIbmLeaf(obj)

\* the places of text where a maximal run of letters and digits begins
RunStarts(text) ==
    {i \in DOMAIN text : text[i] \in TokenChars /\ (i = 1 \/ text[i - 1] \notin TokenChars)}

\* the maximal run of letters and digits that begins at place i
RunFrom(text, i) ==
    LET stops == {j \in i..(Len(text) + 1) : j = Len(text) + 1 \/ text[j] \notin TokenChars}
    IN  SubSeq(text, i, Least(stops) - 1)

\* the places of the runs the claim has returned: 12 to 40 characters that
\* begin, case-folded, with a configured prefix
AcceptedStarts(text) ==
    {i \in RunStarts(text) :
        /\ Len(RunFrom(text, i)) >= MIN_JOB_ID_LEN
        /\ Len(RunFrom(text, i)) <= TOKEN_MAX
        /\ startswith_any(lower(RunFrom(text, i)), LIKELY_JOB_PREFIX)}

\* ids is the list of the accepted runs of text, case-folded, each once, in
\* the order of their first occurrence
IsScanOf(ids, text) ==
    LET first(x) == Least({i \in AcceptedStarts(text) : lower(RunFrom(text, i)) = x})
    IN  /\ Range(ids) = {lower(RunFrom(text, i)) : i \in AcceptedStarts(text)}
        /\ \A k, l \in DOMAIN ids : k < l => first(ids[k]) < first(ids[l])

\* a document none of whose structured job-id locations holds anything
NoStructuredIds(obj) == DirectJobIds(obj) = <<>> /\ NestedJobIds(obj) = <<>>

\* C15: the text scan returns exactly the maximal runs of letters and digits
\* of 12 to 40 characters that begin with a configured prefix, case-folded,
\* each once and in the order of first occurrence, whatever character
\* delimits them: in the text of a document without structured ids, and in a
\* dashboard markdown checked against no .json record.
C15_TextScanExact ==
    /\ \A i \in DOMAIN entries :
          (Truthy(SourceDoc(i)) /\ NoStructuredIds(SourceDoc(i))) =>
              IsScanOf(JobIdsOf(entries[i]), AllText(SourceDoc(i)))
    /\ findings # None =>
          \A i \in DOMAIN entries :
              (/\ lower(suffix(SourceName(i))) = DOT_MD
               /\ Contains(lower(SourceContent(i).text), DASHBOARD)
               /\ Len(entries) = 1) =>
                  IsScanOf(findings.missing_in_json, SourceContent(i).text)

\* the files the tool writes into the evidence directory
ToolFiles == {MANIFEST_JSON, SHA256SUMS, INDEX_MD, WARNINGS_MD}

\* the second run read the revision and the clock value the first run read
SameStamps ==
    /\ Len(outputs) = 2
    /\ outputs[1].git_commit = outputs[2].git_commit
    /\ outputs[1].generated_utc = outputs[2].generated_utc

\* C16: a second run over the directory as the first run left it enumerates
\* none of the files the tool wrote, builds with the same revision and
\* timestamp the same manifest as the first run, and finds what the first
\* run's manifest and the evidence files alone give.
C16_FixedPoint ==
    run = 2 =>
        /\ \A i \in DOMAIN candidates : candidates[i] \notin ToolFiles
        /\ SameStamps => outputs[2].manifest_json = outputs[1].manifest_json
        /\ (SameStamps /\ findings # None) =>
              findings = Findings(fs0, outputs[1].manifest_json.doc)

====
